---------------------------- MODULE Spec2Model ----------------------------
(***************************************************************************)
(* A model of CyatRenderer (src/src/lib.rs): the per-frame batching        *)
(* renderer that concatenates tessellated shapes into one vertex array and *)
(* one index array, records one draw entry per shape, uploads the arrays   *)
(* to two dynamic buffers in prepare, and records scissor-clipped indexed  *)
(* draws in render.                                                        *)
(***************************************************************************)
EXTENDS Integers, Sequences, FiniteSets, TLC

(***************************************************************************)
(* Bounds of the model.                                                    *)
(***************************************************************************)
\* The longest shape list handed to one prepare call.
MaxShapes == 2
\* The colour channel values handed to construct are k / ColorSteps.
ColorSteps == 100

(***************************************************************************)
(* Values.                                                                 *)
(***************************************************************************)
\* The bit pattern of the f32 with biased exponent e and zero mantissa:
\* 0.0 for e = 0, 1.0 for e = 127.
F32(e) == e * (2 ^ 23)
F32Zero == F32(0)
F32One == F32(127)

\* type Bound = (u32, u32, u32, u32): the two clip rectangles of the inputs.
BoundA == <<0, 0, 10, 10>>
BoundB == <<10, 0, 10, 10>>

\* struct DefaultVertex { position: [f32; 2], color: [f32; 3], z: f32 },
\* every field held as its f32 bit pattern.
DefaultVertex(x, y, z) ==
    [position |-> <<x, y>>, color |-> <<F32One, F32Zero, F32Zero>>, z |-> z]

(***************************************************************************)
(* The tessellator (cyat::ShapeBuilder).  A shape is what its build call   *)
(* appends: the vertices it constructs and the indices it emits, relative  *)
(* to its own first vertex.                                                *)
(***************************************************************************)
\* A single triangle: 3 vertices, indices [0,1,2].
Triangle ==
    [vertices |-> << DefaultVertex(F32Zero, F32Zero, F32Zero),
                     DefaultVertex(F32One, F32Zero, F32Zero),
                     DefaultVertex(F32Zero, F32One, F32Zero) >>,
     indices |-> <<0, 1, 2>>]
\* A shape that tessellates to nothing.
Nothing == [vertices |-> <<>>, indices |-> <<>>]
\* A shape that emits a vertex and no index.
Dot ==
    [vertices |-> << DefaultVertex(F32One, F32One, F32One) >>,
     indices |-> <<>>]

\* pub struct ShapeArea(pub ShapeBuilder<DefaultAttributes>, pub Bound)
ShapeArea(shape, bound) == [shape |-> shape, bound |-> bound]

\* The shapes a caller submits.
ShapeAreas ==
    { ShapeArea(Triangle, BoundA), ShapeArea(Triangle, BoundB),
      ShapeArea(Nothing, BoundA), ShapeArea(Dot, BoundB) }

\* The shape lists of at most MaxShapes shapes.
ShapeLists == UNION { [1..n -> ShapeAreas] : n \in 0..MaxShapes }

\* A shape whose indices reference only its own vertices.
Conforming(shape) ==
    \A k \in 1..Len(shape.indices) : shape.indices[k] < Len(shape.vertices)

(***************************************************************************)
(* The state: the fields of CyatRenderer, and what the most recent calls   *)
(* did.                                                                    *)
(***************************************************************************)
VARIABLES
    render_pipeline,  \* the pipeline created by new
    vertex_buffer,    \* DynamicBuffer: [contents, capacity], in bytes
    index_buffer,     \* DynamicBuffer: [contents, capacity], in bytes
    cyat_buffers,     \* VertexBuffers<DefaultVertex, u16>: [vertices, indices]
    shape_buffer,     \* Vec<(usize, usize, Bound)>
    last_call,        \* "new", "prepare" or "render": the most recent call
    shapes,           \* the shape list of the most recent prepare call
    writes,           \* the write_buffer calls of the most recent prepare call
    render_pass,      \* the commands the most recent call recorded
    channel           \* a colour channel under DefaultVertex::construct

vars == << render_pipeline, vertex_buffer, index_buffer, cyat_buffers,
           shape_buffer, last_call, shapes, writes, render_pass, channel >>

(***************************************************************************)
(* bytemuck::cast_slice: the little-endian bytes of the packed arrays.     *)
(***************************************************************************)
RECURSIVE Flatten(_)
Flatten(ss) == IF ss = <<>> THEN <<>> ELSE Head(ss) \o Flatten(Tail(ss))

Map(F(_), s) == [k \in 1..Len(s) |-> F(s[k])]

\* size_of::<DefaultVertex>(): two, three and one f32, in bytes.
VertexSize == 24
\* size_of::<u16>(), the index type of cyat_buffers, in bytes.
IndexSize == 2

\* The bytes of a u16 and of a 32-bit word, least significant first.
U16Bytes(i) == << i % 256, (i \div 256) % 256 >>

U32Bytes(w) ==
    << w % 256, (w \div 256) % 256, (w \div 65536) % 256,
       (w \div 16777216) % 256 >>

\* #[repr(C)] DefaultVertex: position, color, z in declaration order.
VertexBytes(v) ==
    U32Bytes(v.position[1]) \o U32Bytes(v.position[2])
        \o U32Bytes(v.color[1]) \o U32Bytes(v.color[2]) \o U32Bytes(v.color[3])
        \o U32Bytes(v.z)

\* cast_slice(&self.cyat_buffers.vertices)
CastVertices(vertices) == Flatten(Map(VertexBytes, vertices))

\* cast_slice(&self.cyat_buffers.indices)
CastIndices(indices) == Flatten(Map(U16Bytes, indices))

(***************************************************************************)
(* wgpu_dyn_buffer::DynamicBuffer.                                         *)
(***************************************************************************)
DynamicBufferNew == [contents |-> <<>>, capacity |-> 0]

RECURSIVE NextPowerOfTwo(_, _)
NextPowerOfTwo(n, p) == IF p >= n THEN p ELSE NextPowerOfTwo(n, 2 * p)

\* The buffers a write may leave: the bytes become the full contents; the
\* capacity grows, by a policy the buffer chooses, when the bytes exceed it.
\* An empty write changes nothing.
WriteBuffer(buffer, bytes) ==
    IF bytes = <<>> THEN { buffer }
    ELSE IF Len(bytes) <= buffer.capacity
         THEN { [contents |-> bytes, capacity |-> buffer.capacity] }
         ELSE { [contents |-> bytes, capacity |-> c] :
                    c \in { Len(bytes), NextPowerOfTwo(Len(bytes), 1) } }

(***************************************************************************)
(* DefaultVertex::construct: the conversion c(f) = ((f + 0.055) / 1.055)   *)
(* ^ 2.4 of one colour channel.  A channel value is held as an interval    *)
(* << lo, hi >> of integers that encloses ColorScale times the real value: *)
(* every step rounds lo down and hi up, so the real value of the formula   *)
(* lies in the interval computed for it.                                   *)
(***************************************************************************)
\* The number of units of the value 1.0.
ColorScale == 4 * (10 ^ 4)

\* The products a * b of two values, rounded down and up.
MulDown(a, b) == (a * b) \div ColorScale
MulUp(a, b) == (a * b + ColorScale - 1) \div ColorScale

\* a ^ n, n >= 1, rounded down and up.
RECURSIVE PowDown(_, _)
PowDown(a, n) == IF n = 1 THEN a ELSE MulDown(PowDown(a, n - 1), a)
RECURSIVE PowUp(_, _)
PowUp(a, n) == IF n = 1 THEN a ELSE MulUp(PowUp(a, n - 1), a)

\* The greatest r in lo..hi with PowUp(r, 5) <= y, which PowUp(lo, 5) is:
\* a lower bound of the fifth root of y.
RECURSIVE RootDown(_, _, _)
RootDown(y, lo, hi) ==
    IF lo = hi THEN lo
    ELSE LET mid == (lo + hi + 1) \div 2
         IN  IF PowUp(mid, 5) <= y THEN RootDown(y, mid, hi)
             ELSE RootDown(y, lo, mid - 1)

\* The least r in lo..hi with PowDown(r, 5) >= y, which PowDown(hi, 5) is:
\* an upper bound of the fifth root of y.
RECURSIVE RootUp(_, _, _)
RootUp(y, lo, hi) ==
    IF lo = hi THEN lo
    ELSE LET mid == (lo + hi) \div 2
         IN  IF PowDown(mid, 5) >= y THEN RootUp(y, lo, mid)
             ELSE RootUp(y, mid + 1, hi)

\* Mutant: the offset 0.055 is not added, (f / 1.055).
NormalizeWithoutOffset(f) ==
    << (1000 * f[1]) \div 1055, (1000 * f[2] + 1054) \div 1055 >>

\* (f + 0.055) / 1.055, which is (1000 f + 55) / 1055.
Normalize(f) ==
    << (1000 * f[1] + 55 * ColorScale) \div 1055,
       (1000 * f[2] + 55 * ColorScale + 1054) \div 1055 >>

\* powf(2.4): the twelfth power of the fifth root.
Powf24(y) ==
    << PowDown(RootDown(y[1], 0, ColorScale), 12),
       PowUp(RootUp(y[2], 0, ColorScale), 12) >>

\* let c = |f: f32| OrderedFloat((f + 0.055) / 1.055).powf(2.4);
ConvertColor(f) == Powf24(Normalize(f))

\* The channel value k / ColorSteps of the attributes.
ChannelValue(k) ==
    << (k * ColorScale) \div ColorSteps,
       (k * ColorScale + ColorSteps - 1) \div ColorSteps >>

\* A channel of DefaultAttributes.color, before any conversion.
Channel(k) ==
    [input |-> k, passes |-> 0, before |-> ChannelValue(k),
     value |-> ChannelValue(k)]

\* construct converts the channel; a second pass is the conversion applied
\* again to a value that was converted already.
Construct ==
    /\ channel.passes < 2
    /\ channel' = [channel EXCEPT !.passes = @ + 1,
                                  !.before = channel.value,
                                  !.value = ConvertColor(channel.value)]
    /\ UNCHANGED << render_pipeline, vertex_buffer, index_buffer,
                    cyat_buffers, shape_buffer, last_call, shapes, writes,
                    render_pass >>

(***************************************************************************)
(* CyatRenderer::new                                                       *)
(***************************************************************************)
\* device.create_render_pipeline(...): the pipeline of shader.wgsl's vs_main
\* and fs_main over DefaultVertex::layout().
RenderPipeline ==
    [vertex |-> "vs_main", fragment |-> "fs_main", array_stride |-> VertexSize]

VertexBuffersNew == [vertices |-> <<>>, indices |-> <<>>]

Init ==
    /\ render_pipeline = RenderPipeline
    /\ vertex_buffer = DynamicBufferNew
    /\ index_buffer = DynamicBufferNew
    /\ cyat_buffers = VertexBuffersNew
    /\ shape_buffer = <<>>
    /\ last_call = "new"
    /\ shapes = <<>>
    /\ writes = <<>>
    /\ render_pass = <<>>
    /\ channel = Channel(0)

(***************************************************************************)
(* CyatRenderer::prepare                                                   *)
(***************************************************************************)
\* Mutant: the batch is not cleared at the start of prepare.
KeepCyatBuffers(buffers) == buffers

\* self.cyat_buffers.clear()
ClearCyatBuffers(buffers) == [vertices |-> <<>>, indices |-> <<>>]

\* self.shape_buffer.clear()
ClearShapeBuffer(entries) == <<>>

\* shape.build(&mut self.cyat_buffers): the shape's vertices and indices are
\* appended, each index (a u16) offset by the vertex count present before
\* the shape's contribution.
Build(shape, buffers) ==
    LET base == Len(buffers.vertices)
    IN  [vertices |-> buffers.vertices \o shape.vertices,
         indices |-> buffers.indices
                        \o [k \in 1..Len(shape.indices) |->
                               (base + shape.indices[k]) % (2 ^ 16)]]

\* Mutant: the range end is taken from the vertex array.
BufferLenOfVertices(buffers) == Len(buffers.vertices)

\* let buffer_len = self.cyat_buffers.indices.len();
BufferLen(buffers) == Len(buffers.indices)

\* Mutant: `index` is never advanced, every entry starts at 0.
DrawEntryFromZero(index, buffer_len, bound) == << 0, buffer_len, bound >>

\* The entry pushed for one shape: (index, buffer_len, bound).
DrawEntry(index, buffer_len, bound) == << index, buffer_len, bound >>

\* Mutant: an entry with the clip rectangle of the previous one is merged
\* into it.
PushEntryMerging(entries, entry) ==
    IF entries # <<>> /\ entries[Len(entries)][3] = entry[3]
    THEN [entries EXCEPT ![Len(entries)] = << @[1], entry[2], @[3] >>]
    ELSE Append(entries, entry)

\* self.shape_buffer.push(entry)
PushEntry(entries, entry) == Append(entries, entry)

\* for ShapeArea(shape, bound) in shapes { ... }: the batch and the entries
\* after the shapes list[k..] are processed, index being the local `index`.
RECURSIVE BuildLoop(_, _, _, _, _)
BuildLoop(list, k, buffers, entries, index) ==
    IF k > Len(list) THEN [buffers |-> buffers, entries |-> entries]
    ELSE LET built == Build(list[k].shape, buffers)
             buffer_len == BufferLen(built)
         IN  BuildLoop(list, k + 1, built,
                       PushEntry(entries,
                                 DrawEntry(index, buffer_len, list[k].bound)),
                       buffer_len)

\* Mutant: prepare returns early on an empty vertex array only.
PrepareReturnsEarlyOnVertices(buffers) == buffers.vertices = <<>>

\* Mutant: prepare has no early return.
PrepareNeverReturnsEarly(buffers) == FALSE

\* The early return of prepare: vertices.is_empty() || indices.is_empty()
PrepareReturnsEarly(buffers) ==
    buffers.vertices = <<>> \/ buffers.indices = <<>>

\* Mutant: the index array is uploaded to the vertex buffer.
VertexDataOfIndices(buffers) == CastIndices(buffers.indices)

\* Mutant: the vertex array is uploaded to the index buffer.
IndexDataOfVertices(buffers) == CastVertices(buffers.vertices)

\* The bytes prepare hands to each buffer's write_buffer.
VertexData(buffers) == CastVertices(buffers.vertices)
IndexData(buffers) == CastIndices(buffers.indices)

\* The state of (cyat_buffers, shape_buffer) that prepare(list) leaves when
\* called with the renderer holding (buffers, entries).
PrepareBatch(list, buffers, entries) ==
    BuildLoop(list, 1, ClearCyatBuffers(buffers), ClearShapeBuffer(entries), 0)

Prepare(list) ==
    LET batch == PrepareBatch(list, cyat_buffers, shape_buffer)
    IN  /\ cyat_buffers' = batch.buffers
        /\ shape_buffer' = batch.entries
        /\ IF PrepareReturnsEarly(batch.buffers)
           THEN /\ writes' = <<>>
                /\ UNCHANGED << vertex_buffer, index_buffer >>
           ELSE /\ vertex_buffer'
                      \in WriteBuffer(vertex_buffer, VertexData(batch.buffers))
                /\ index_buffer'
                      \in WriteBuffer(index_buffer, IndexData(batch.buffers))
                /\ writes' =
                      << [buffer |-> "vertex_buffer",
                          len |-> Len(VertexData(batch.buffers))],
                         [buffer |-> "index_buffer",
                          len |-> Len(IndexData(batch.buffers))] >>
        /\ last_call' = "prepare"
        /\ shapes' = list
        /\ render_pass' = <<>>
        /\ UNCHANGED << render_pipeline, channel >>

(***************************************************************************)
(* CyatRenderer::render                                                    *)
(***************************************************************************)
\* Mutant: render has no early return.
RenderNeverReturnsEarly(buffers) == FALSE

\* Mutant: render returns early only when both arrays are empty.
RenderReturnsEarlyOnBoth(buffers) ==
    buffers.vertices = <<>> /\ buffers.indices = <<>>

\* The early return of render: vertices.is_empty() || indices.is_empty()
RenderReturnsEarly(buffers) ==
    buffers.vertices = <<>> \/ buffers.indices = <<>>

SetPipeline(pipeline) == [cmd |-> "set_pipeline", pipeline |-> pipeline]

\* set_vertex_buffer(0, buffer.slice(..)): the whole buffer, at slot 0.
SetVertexBuffer(buffer) ==
    [cmd |-> "set_vertex_buffer", slot |-> 0,
     slice |-> << 0, buffer.capacity >>]

\* set_index_buffer(buffer.slice(..), IndexFormat::Uint16)
SetIndexBuffer(buffer) ==
    [cmd |-> "set_index_buffer", slice |-> << 0, buffer.capacity >>,
     format |-> "Uint16"]

SetScissorRect(bound) ==
    [cmd |-> "set_scissor_rect", x |-> bound[1], y |-> bound[2],
     width |-> bound[3], height |-> bound[4]]

\* Mutant: the draw covers the inclusive range start..=end.
DrawIndexedInclusive(start, end) ==
    [cmd |-> "draw_indexed", indices |-> << start, end + 1 >>,
     base_vertex |-> 0, instances |-> << 0, 1 >>]

\* draw_indexed(start as u32..end as u32, 0, 0..1); the usize values of the
\* model are far below 2^32, where the cast keeps them.
DrawIndexed(start, end) ==
    [cmd |-> "draw_indexed", indices |-> << start, end >>,
     base_vertex |-> 0, instances |-> << 0, 1 >>]

\* Mutant: the draw is issued before the entry's clip rectangle is set.
EntryCommandsDrawFirst(entry) ==
    << DrawIndexed(entry[1], entry[2]), SetScissorRect(entry[3]) >>

\* The commands of one iteration of the loop over shape_buffer.
EntryCommands(entry) ==
    << SetScissorRect(entry[3]), DrawIndexed(entry[1], entry[2]) >>

\* Mutant: entries with an empty range are skipped.
RenderEntriesSkippingEmpty(entries) ==
    Flatten(Map(LAMBDA entry :
                    IF entry[1] = entry[2] THEN <<>> ELSE EntryCommands(entry),
                entries))

\* for (start, end, bound) in &self.shape_buffer { ... }
RenderEntries(entries) == Flatten(Map(EntryCommands, entries))

\* The commands render appends to the pass.
RenderCommands ==
    IF RenderReturnsEarly(cyat_buffers) THEN <<>>
    ELSE << SetPipeline(render_pipeline), SetVertexBuffer(vertex_buffer),
            SetIndexBuffer(index_buffer) >>
         \o RenderEntries(shape_buffer)

\* Mutant: render drains the draw entries it has recorded.
RenderClearingEntries ==
    /\ render_pass' = RenderCommands
    /\ last_call' = "render"
    /\ shape_buffer' = <<>>
    /\ UNCHANGED << render_pipeline, vertex_buffer, index_buffer, cyat_buffers,
                    shapes, writes, channel >>

\* Mutant: render creates the pipeline anew, for another vertex layout.
RenderRebuildingPipeline ==
    /\ render_pass' = RenderCommands
    /\ last_call' = "render"
    /\ render_pipeline' = [render_pipeline EXCEPT !.array_stride = 0]
    /\ UNCHANGED << vertex_buffer, index_buffer, cyat_buffers, shape_buffer,
                    shapes, writes, channel >>

Render ==
    /\ render_pass' = RenderCommands
    /\ last_call' = "render"
    /\ UNCHANGED << render_pipeline, vertex_buffer, index_buffer, cyat_buffers,
                    shape_buffer, shapes, writes, channel >>

(***************************************************************************)
(* The renderer under any sequence of prepare and render calls.            *)
(***************************************************************************)
Next ==
    \/ \E list \in ShapeLists : Prepare(list)
    \/ Render

Spec == Init /\ [][Next]_vars

(***************************************************************************)
(* The colour conversion on every channel value k / ColorSteps, applied    *)
(* once by construct and once more on its own result.                      *)
(***************************************************************************)
ColorInit ==
    /\ render_pipeline = RenderPipeline
    /\ vertex_buffer = DynamicBufferNew
    /\ index_buffer = DynamicBufferNew
    /\ cyat_buffers = VertexBuffersNew
    /\ shape_buffer = <<>>
    /\ last_call = "new"
    /\ shapes = <<>>
    /\ writes = <<>>
    /\ render_pass = <<>>
    /\ channel \in { Channel(k) : k \in 0..ColorSteps }

ColorNext == Construct

ColorSpec == ColorInit /\ [][ColorNext]_vars

(***************************************************************************)
(* Helpers of the properties.                                              *)
(***************************************************************************)
\* The batch is empty: no vertex or no index.
EmptyBatch == Len(cyat_buffers.vertices) = 0 \/ Len(cyat_buffers.indices) = 0

\* The draw_indexed commands among the recorded commands.
DrawCalls == { k \in 1..Len(render_pass) : render_pass[k].cmd = "draw_indexed" }

(***************************************************************************)
(* C1: after any prepare call the draw entries partition the index array   *)
(* contiguously in submission order: the first starts at 0, every entry    *)
(* has start <= end, each entry ends where the next starts, and the last   *)
(* ends at the number of indices of the batch.                             *)
(***************************************************************************)
C1_EntriesPartitionIndices ==
    LET n == Len(shape_buffer)
    IN  /\ n > 0 => shape_buffer[1][1] = 0
        /\ \A i \in 1..n : shape_buffer[i][1] <= shape_buffer[i][2]
        /\ \A i \in 1..(n - 1) : shape_buffer[i][2] = shape_buffer[i + 1][1]
        /\ n > 0 => shape_buffer[n][2] = Len(cyat_buffers.indices)

\* Two shapes that both contribute indices have been prepared.
C1_Witness ==
    /\ last_call = "prepare"
    /\ Len(shape_buffer) = 2
    /\ shape_buffer[1][1] < shape_buffer[1][2]
    /\ shape_buffer[2][1] < shape_buffer[2][2]

(***************************************************************************)
(* C2: prepare records exactly one draw entry per input shape, in input    *)
(* order, entry i carrying the clip rectangle of shape i; neighbours with  *)
(* the same clip rectangle are not merged and shapes without indices are   *)
(* not dropped.                                                            *)
(***************************************************************************)
C2_OneEntryPerShape ==
    /\ Len(shape_buffer) = Len(shapes)
    /\ \A i \in 1..Len(shapes) : shape_buffer[i][3] = shapes[i].bound

\* A triangle and a shape without indices, under the same clip rectangle.
C2_Witness ==
    /\ last_call = "prepare"
    /\ shapes = << ShapeArea(Triangle, BoundA), ShapeArea(Nothing, BoundA) >>
    /\ Len(shape_buffer) = 2

(***************************************************************************)
(* C3, as stated: a shape with no indices in a non-empty batch gets an     *)
(* entry with start = end, and render issues no draw call for that entry,  *)
(* so every draw_indexed that render records covers a non-empty range.     *)
(***************************************************************************)
C3_EmptyEntrySkipped ==
    /\ \A i \in 1..Len(shapes) :
          shapes[i].shape.indices = <<>> =>
              /\ i <= Len(shape_buffer)
              /\ shape_buffer[i][1] = shape_buffer[i][2]
    /\ last_call = "render" =>
          \A k \in DrawCalls :
              render_pass[k].indices[1] < render_pass[k].indices[2]

(***************************************************************************)
(* C3, amended: a shape with no indices in a non-empty batch gets an entry *)
(* with start = end, and render does not skip it: it records for it one    *)
(* set_scissor_rect with its bound followed by one draw_indexed over the   *)
(* empty range [start, start).                                             *)
(***************************************************************************)
C3_EmptyEntryDrawnOverEmptyRange ==
    \A i \in 1..Len(shapes) :
        shapes[i].shape.indices = <<>> =>
            /\ i <= Len(shape_buffer)
            /\ shape_buffer[i][1] = shape_buffer[i][2]
            /\ (last_call = "render" /\ ~EmptyBatch) =>
                  /\ 2 * i + 3 <= Len(render_pass)
                  /\ render_pass[2 * i + 2] = SetScissorRect(shapes[i].bound)
                  /\ render_pass[2 * i + 3]
                        = DrawIndexed(shape_buffer[i][1], shape_buffer[i][1])

\* render has run on a non-empty batch that holds a shape without indices.
C3_Witness ==
    /\ last_call = "render"
    /\ ~EmptyBatch
    /\ \E i \in 1..Len(shapes) : shapes[i].shape.indices = <<>>

(***************************************************************************)
(* C4: whenever render records a command, the most recent prepare call     *)
(* wrote both buffers and they hold exactly the packed vertex array and    *)
(* index array of that call; render before any prepare, or after a         *)
(* prepare that wrote nothing, records no command.                         *)
(***************************************************************************)
C4_RenderReadsOnlyWrittenBuffers ==
    (last_call = "render" /\ render_pass # <<>>) =>
        /\ Len(writes) = 2
        /\ writes[1].buffer = "vertex_buffer"
        /\ writes[2].buffer = "index_buffer"
        /\ vertex_buffer.contents = CastVertices(cyat_buffers.vertices)
        /\ index_buffer.contents = CastIndices(cyat_buffers.indices)

\* render has recorded commands.
C4_Witness ==
    /\ last_call = "render"
    /\ render_pass # <<>>
    /\ vertex_buffer.contents # <<>>

(***************************************************************************)
(* C5: a prepare call whose batch is empty writes neither dynamic buffer:  *)
(* contents and capacity of both are what they were before the call, and   *)
(* the render that follows issues no draw call.                            *)
(***************************************************************************)
C5_EmptyPrepareWritesNothing ==
    [][ /\ (last_call' = "prepare" /\ EmptyBatch') =>
              /\ vertex_buffer' = vertex_buffer
              /\ index_buffer' = index_buffer
              /\ writes' = <<>>
        /\ (last_call = "prepare" /\ EmptyBatch /\ last_call' = "render") =>
              /\ DrawCalls' = {}
              /\ render_pass' = <<>> ]_vars

\* An empty batch was prepared after an earlier frame had written the buffers.
C5_Witness ==
    /\ last_call = "prepare"
    /\ EmptyBatch
    /\ vertex_buffer.contents # <<>>
    /\ index_buffer.contents # <<>>

(***************************************************************************)
(* C6: the batch is empty exactly when it has no vertex or no index after  *)
(* all shapes are processed; render then records no command at all,        *)
(* however many zero-length entries prepare recorded, and in every other   *)
(* case render records commands.                                           *)
(***************************************************************************)
C6_RenderRecordsIffBatchNonEmpty ==
    last_call = "render" =>
        (render_pass = <<>>
            <=> (Len(cyat_buffers.vertices) = 0
                    \/ Len(cyat_buffers.indices) = 0))

\* render has run on a batch with vertices, no index and two recorded entries.
C6_Witness ==
    /\ last_call = "render"
    /\ Len(cyat_buffers.vertices) > 0
    /\ Len(cyat_buffers.indices) = 0
    /\ Len(shape_buffer) = 2
    /\ render_pass = <<>>

(***************************************************************************)
(* C7: for a non-empty batch render records exactly set_pipeline,          *)
(* set_vertex_buffer at slot 0, set_index_buffer with the 16-bit format,   *)
(* then per draw entry, in recorded order, one set_scissor_rect with the   *)
(* entry's bound immediately followed by one draw_indexed over the entry's *)
(* [start, end) with base vertex 0 and a single instance.                  *)
(***************************************************************************)
C7_RenderCommandSequence ==
    (last_call = "render" /\ ~EmptyBatch) =>
        /\ Len(render_pass) = 3 + 2 * Len(shape_buffer)
        /\ render_pass[1].cmd = "set_pipeline"
        /\ render_pass[1].pipeline = render_pipeline
        /\ render_pass[2].cmd = "set_vertex_buffer"
        /\ render_pass[2].slot = 0
        /\ render_pass[3].cmd = "set_index_buffer"
        /\ render_pass[3].format = "Uint16"
        /\ \A i \in 1..Len(shape_buffer) :
              LET scissor == render_pass[2 * i + 2]
                  draw == render_pass[2 * i + 3]
                  entry == shape_buffer[i]
              IN  /\ scissor.cmd = "set_scissor_rect"
                  /\ << scissor.x, scissor.y, scissor.width, scissor.height >>
                        = entry[3]
                  /\ draw.cmd = "draw_indexed"
                  /\ draw.indices = << entry[1], entry[2] >>
                  /\ draw.base_vertex = 0
                  /\ draw.instances = << 0, 1 >>

\* render has run on two shapes with different clip rectangles.
C7_Witness ==
    /\ last_call = "render"
    /\ Len(render_pass) = 7
    /\ shape_buffer[1][3] # shape_buffer[2][3]

(***************************************************************************)
(* C8: after a prepare call with a non-empty batch both dynamic buffers    *)
(* were written in that call and their contents are the packed vertex      *)
(* array and the packed index array of the batch, overwritten from offset  *)
(* 0 and not appended to the previous frame's data.                        *)
(***************************************************************************)
C8_BuffersHoldPackedBatch ==
    (last_call = "prepare" /\ ~EmptyBatch) =>
        /\ Len(writes) = 2
        /\ writes[1] = [buffer |-> "vertex_buffer",
                        len |-> VertexSize * Len(cyat_buffers.vertices)]
        /\ writes[2] = [buffer |-> "index_buffer",
                        len |-> IndexSize * Len(cyat_buffers.indices)]
        /\ vertex_buffer.contents = CastVertices(cyat_buffers.vertices)
        /\ index_buffer.contents = CastIndices(cyat_buffers.indices)
        /\ Len(vertex_buffer.contents) = VertexSize * Len(cyat_buffers.vertices)
        /\ Len(index_buffer.contents) = IndexSize * Len(cyat_buffers.indices)

\* A one-triangle batch was prepared after a frame of at least two triangles.
C8_Witness ==
    /\ last_call = "prepare"
    /\ Len(cyat_buffers.vertices) = 3
    /\ Len(cyat_buffers.indices) = 3
    /\ vertex_buffer.capacity >= 2 * 3 * VertexSize
    /\ index_buffer.capacity >= 2 * 3 * IndexSize

(***************************************************************************)
(* C9: the vertex array, index array and draw entries after prepare(S)     *)
(* depend only on S: whatever calls came before, they are what a freshly   *)
(* constructed renderer holds after prepare(S).                            *)
(***************************************************************************)
C9_BatchDependsOnlyOnShapes ==
    last_call # "new" =>
        LET fresh == PrepareBatch(shapes, VertexBuffersNew, <<>>)
        IN  /\ cyat_buffers = fresh.buffers
            /\ shape_buffer = fresh.entries

\* A batch of one triangle was prepared after a frame with more vertices.
C9_Witness ==
    /\ last_call = "prepare"
    /\ shapes = << ShapeArea(Triangle, BoundB) >>
    /\ vertex_buffer.capacity >= 2 * 3 * VertexSize

(***************************************************************************)
(* C10: with tessellators that offset their indices by the vertex count    *)
(* present before their contribution, every index of the batch is below    *)
(* the batch's vertex count and the indices in the range of shape i's      *)
(* entry reference only vertices appended by shape i; two single-triangle  *)
(* shapes with bounds (0,0,10,10) and (10,0,10,10) give 6 vertices,        *)
(* indices [0,1,2,3,4,5], entries (0,3,(0,0,10,10)), (3,6,(10,0,10,10)).   *)
(***************************************************************************)
\* The number of vertices appended by the shapes before shape i.
RECURSIVE FirstVertex(_)
FirstVertex(i) ==
    IF i <= 1 THEN 0
    ELSE FirstVertex(i - 1) + Len(shapes[i - 1].shape.vertices)

C10_IndicesReferenceOwnVertices ==
    (last_call # "new" /\ \A i \in 1..Len(shapes) : Conforming(shapes[i].shape))
    =>  /\ \A k \in 1..Len(cyat_buffers.indices) :
              cyat_buffers.indices[k] < Len(cyat_buffers.vertices)
        /\ \A i \in 1..Len(shapes) :
              /\ i <= Len(shape_buffer)
              /\ shape_buffer[i][2] <= Len(cyat_buffers.indices)
              /\ \A k \in (shape_buffer[i][1] + 1)..shape_buffer[i][2] :
                    /\ FirstVertex(i) <= cyat_buffers.indices[k]
                    /\ cyat_buffers.indices[k]
                          < FirstVertex(i) + Len(shapes[i].shape.vertices)
        /\ shapes = << ShapeArea(Triangle, << 0, 0, 10, 10 >>),
                       ShapeArea(Triangle, << 10, 0, 10, 10 >>) >>
            =>  /\ Len(cyat_buffers.vertices) = 6
                /\ cyat_buffers.indices = << 0, 1, 2, 3, 4, 5 >>
                /\ shape_buffer = << << 0, 3, << 0, 0, 10, 10 >> >>,
                                     << 3, 6, << 10, 0, 10, 10 >> >> >>

\* The two triangles of the scenario have been prepared.
C10_Witness ==
    /\ last_call = "prepare"
    /\ shapes = << ShapeArea(Triangle, << 0, 0, 10, 10 >>),
                   ShapeArea(Triangle, << 10, 0, 10, 10 >>) >>

(***************************************************************************)
(* C11: render changes no renderer state: the batch, the draw entries,     *)
(* both dynamic buffers and the pipeline are the same before and after     *)
(* the call, so consecutive render calls after one prepare record the      *)
(* same command sequence.                                                  *)
(***************************************************************************)
C11_RenderChangesNoState ==
    [][ last_call' = "render" =>
            /\ cyat_buffers' = cyat_buffers
            /\ shape_buffer' = shape_buffer
            /\ vertex_buffer' = vertex_buffer
            /\ index_buffer' = index_buffer
            /\ render_pipeline' = render_pipeline
            /\ last_call = "render" => render_pass' = render_pass ]_vars

\* render has run on a batch of two draw entries.
C11_Witness ==
    /\ last_call = "render"
    /\ Len(shape_buffer) = 2
    /\ Len(render_pass) = 3 + 2 * 2

(***************************************************************************)
(* C12: across any sequence of prepare calls the capacity of each dynamic  *)
(* buffer never decreases and after every write is at least the size of    *)
(* the data written; after growing from a smaller frame to a larger one    *)
(* both buffers hold exactly the larger frame's vertex and index data.     *)
(***************************************************************************)
C12_CapacityGrowsMonotonically ==
    [][ /\ vertex_buffer'.capacity >= vertex_buffer.capacity
        /\ index_buffer'.capacity >= index_buffer.capacity
        /\ writes' # <<>> =>
              /\ vertex_buffer'.capacity >= writes'[1].len
              /\ index_buffer'.capacity >= writes'[2].len
              /\ writes'[1].len = VertexSize * Len(cyat_buffers'.vertices)
              /\ writes'[2].len = IndexSize * Len(cyat_buffers'.indices)
        /\ (/\ last_call' = "prepare"
            /\ vertex_buffer'.capacity > vertex_buffer.capacity
            /\ index_buffer'.capacity > index_buffer.capacity) =>
              /\ vertex_buffer'.contents = CastVertices(cyat_buffers'.vertices)
              /\ index_buffer'.contents = CastIndices(cyat_buffers'.indices) ]_vars

\* Both buffers have grown to hold exactly a frame of two triangles.
C12_Witness ==
    /\ last_call = "prepare"
    /\ Len(cyat_buffers.vertices) = 6
    /\ Len(cyat_buffers.indices) = 6
    /\ vertex_buffer.capacity = 3 * VertexSize + 3 * VertexSize
    /\ index_buffer.capacity = 3 * IndexSize + 3 * IndexSize

(***************************************************************************)
(* C14: the render pipeline established by new is never replaced or        *)
(* modified by any sequence of prepare and render calls.                   *)
(***************************************************************************)
C14_PipelineIsImmutable == render_pipeline = RenderPipeline

\* A prepare and a render have run since new.
C14_Witness ==
    /\ last_call = "render"
    /\ shapes # <<>>
    /\ render_pass # <<>>
    /\ render_pass[1] = SetPipeline(RenderPipeline)

(***************************************************************************)
(* C15: prepare writes the two dynamic buffers together or not at all and  *)
(* never calls write_buffer with an empty byte slice: at its return either *)
(* both buffers were written in the call with non-empty data or neither    *)
(* was written.                                                            *)
(***************************************************************************)
C15_BothBuffersWrittenOrNeither ==
    \/ writes = <<>>
    \/ /\ Len(writes) = 2
       /\ writes[1].buffer = "vertex_buffer"
       /\ writes[2].buffer = "index_buffer"
       /\ writes[1].len > 0
       /\ writes[2].len > 0

\* A batch with vertices and no index was prepared: neither buffer written.
C15_Witness ==
    /\ last_call = "prepare"
    /\ Len(cyat_buffers.vertices) > 0
    /\ Len(cyat_buffers.indices) = 0
    /\ writes = <<>>

(***************************************************************************)
(* C16: after a larger frame is followed by a smaller non-empty frame,     *)
(* every index range render draws lies within [0, number of indices        *)
(* written by the most recent prepare], so no draw reads index data left   *)
(* by an earlier frame although render binds the whole buffer.             *)
(***************************************************************************)
C16_DrawsWithinWrittenIndices ==
    (last_call = "render" /\ DrawCalls # {}) =>
        /\ Len(writes) = 2
        /\ \A k \in DrawCalls :
              /\ 0 <= render_pass[k].indices[1]
              /\ render_pass[k].indices[1] <= render_pass[k].indices[2]
              /\ IndexSize * render_pass[k].indices[2] <= writes[2].len
              /\ IndexSize * render_pass[k].indices[2]
                    <= Len(index_buffer.contents)

\* render has drawn a one-triangle frame from buffers bound whole that once
\* held two triangles.
C16_Witness ==
    /\ last_call = "render"
    /\ DrawCalls # {}
    /\ Len(cyat_buffers.indices) = 3
    /\ index_buffer.capacity >= 6 * IndexSize
    /\ render_pass[3] = SetIndexBuffer(index_buffer)
    /\ render_pass[3].slice[2] > IndexSize * Len(cyat_buffers.indices)

=============================================================================
